---- MODULE Spec2Model ----
(***************************************************************************)
(* statusmake.js: a health-check route handler.  The handler fans out to   *)
(* the host metrics collector, the endpoint prober and the function        *)
(* prober, joins the three promises and sends one response.                *)
(*                                                                         *)
(* One invocation of a handler is a record inv[r]; the event loop runs one *)
(* callback at a time, and the promise callbacks that a callback makes     *)
(* ready run before the next I/O callback (the promise library drains its  *)
(* whole queue), so every action below is one I/O callback followed by the *)
(* promise callbacks it triggers.                                          *)
(*                                                                         *)
(* Numbers with two decimals (percentages, minutes, megabytes) are kept as *)
(* integers counting hundredths: 33.33 is 3333 and -1 is -100.             *)
(***************************************************************************)
EXTENDS Integers, Sequences, FiniteSets, TLC

MaxLen == 2      \* longest apis / functions list of an InspectionSet

Requests == {1, 2}                           \* invocations of a handler
Names == <<"svc-a", "svc-b", "svc-c", "svc-d">>

-----------------------------------------------------------------------------
(* JavaScript values *)

EmptyObject == << >>                         \* {}
Array(seq) == [items |-> seq]                \* [seq[1], seq[2], ...]
EmptyArray == Array(<< >>)                   \* []
NoValue == [undefined |-> TRUE]              \* undefined
Error(msg) == [name |-> "Error", message |-> msg]
TypeError(msg) == [name |-> "TypeError", message |-> msg]

\* obj[key] = value
Assign(obj, key, value) == (key :> value) @@ obj

\* promise states
Pending == [st |-> "pending"]
Fulfilled(v) == [st |-> "fulfilled", value |-> v]
Rejected(e) == [st |-> "rejected", reason |-> e]

\* a promise settles once: prior is its state before the callback, now what
\* its inputs make of it after the callback
Settle(prior, now) == IF prior.st = "pending" THEN now ELSE prior

\* Promise.map / Promise.join over the promises ps (a sequence): rejected with
\* the reason of the input that rejected, fulfilled with all the values once
\* every input is fulfilled.  At most one input rejects per callback, and
\* Promise.map stops calling the mapper after a throw, so the lowest rejected
\* index is the first rejection.
PromiseAll(ps) ==
    IF \E i \in DOMAIN ps : ps[i].st = "rejected"
    THEN LET i == CHOOSE j \in DOMAIN ps :
                    /\ ps[j].st = "rejected"
                    /\ \A k \in DOMAIN ps : ps[k].st = "rejected" => j <= k
         IN  Rejected(ps[i].reason)
    ELSE IF \A i \in DOMAIN ps : ps[i].st = "fulfilled"
    THEN Fulfilled([i \in DOMAIN ps |-> ps[i].value])
    ELSE Pending

-----------------------------------------------------------------------------
(* The inputs *)

ApiSpec(i) == [name |-> Names[i], url |-> "http://x/health"]
FnSpec(i) == [name |-> Names[MaxLen + 1 - i], fn |-> "fn"]

ApiLists == {Array([i \in 1..n |-> ApiSpec(i)]) : n \in 0..MaxLen}
FnLists == {Array([i \in 1..n |-> FnSpec(i)]) : n \in 0..MaxLen}

\* InspectionSet: an object whose apis and functions may each be absent (read
\* as undefined); a handler can also be built with no InspectionSet at all.
InspectionSets ==
    {NoValue}
    \cup [apis : ApiLists \cup {NoValue}, functions : FnLists \cup {NoValue}]

\* what a request to an endpoint ends with: a response, or a transport error
RequestOutcomes ==
    {[statusCode |-> c] : c \in {200, 500}}
    \cup {[error |-> Error(m)] : m \in {"ETIMEDOUT"}}

\* what diskspace.check('/') ends with
DiskOutcomes ==
    {[data |-> [used |-> 1, total |-> 3]], [error |-> Error("df failed")]}

\* what calling a check function does: return a boolean, throw, or return a
\* promise that settles later
FnCallOutcomes ==
    {Fulfilled(b) : b \in BOOLEAN}
    \cup {Rejected(Error("check failed")), Rejected(NoValue)}
    \cup {Pending}
FnSettleOutcomes == FnCallOutcomes \ {Pending}

\* readings of os and process at the time of the call
os == [heapTotal |-> 50, totalmem |-> 800, uptime |-> 90,
       loadavg |-> <<150, 75>>, cpus |-> 4, hostname |-> "host",
       freemem |-> 3 * 1024 * 1024]

-----------------------------------------------------------------------------
(* statusmake.js *)

\* Math.round(x * 100) / 100 of x = num / den, in hundredths
Round2(num, den) == (2 * 100 * num + den) \div (2 * den)

\* the promisified request: the callback's error rejects, a response fulfils
\* with whether its status is 200.  outcome is NoValue while in flight.
ensureHttp200(outcome) ==
    IF outcome = NoValue THEN Pending
    ELSE IF "error" \in DOMAIN outcome THEN Rejected(outcome.error)
    ELSE Fulfilled(outcome.statusCode = 200)

\* load is a load average in hundredths
getCpuPercent(load) == Round2(load, os.cpus)

DiskUnavailable == -100

\* the fields healthCheckServer fills in before it asks for the disk usage
hostMetrics ==
    [process_memory_used_percent |-> Round2(os.heapTotal * 100, os.totalmem),
     uptime_minutes |-> Round2(os.uptime, 60),
     cpu_one_minute_average_percent |-> getCpuPercent(os.loadavg[1]),
     cpu_five_minute_average_percent |-> getCpuPercent(os.loadavg[2]),
     hostname |-> os.hostname,
     os_free_memory_mb |-> Round2(os.freemem, 1024 * 1024)]

\* the collector without its catch: a failing disk query rejects it
healthCheckServerNoCatch(disk) ==
    IF disk.st = "fulfilled"
    THEN Fulfilled(Assign(hostMetrics, "disk_root_use_percent",
                          Round2(disk.value.used * 100, disk.value.total)))
    ELSE disk

\* disk is the promise of diskspace.checkAsync('/')
healthCheckServer(disk) ==
    LET result == hostMetrics
    IN  IF disk.st = "pending" THEN Pending
        ELSE IF disk.st = "fulfilled"
        THEN Fulfilled(Assign(result, "disk_root_use_percent",
                              Round2(disk.value.used * 100, disk.value.total)))
        ELSE Fulfilled(Assign(result, "disk_root_use_percent", DiskUnavailable))

RECURSIVE reduce(_, _, _)
reduce(statusFlags, i, flag) ==
    IF i \notin DOMAIN statusFlags THEN flag
    ELSE reduce(statusFlags, i + 1, statusFlags[i] /\ flag)

\* the reducer returning n instead of n && flag: the last flag alone decides
allOkLast(statusFlags) ==
    IF DOMAIN statusFlags = {} THEN TRUE
    ELSE statusFlags[CHOOSE i \in DOMAIN statusFlags :
                         \A j \in DOMAIN statusFlags : j <= i]

allOk(statusFlags) == reduce(statusFlags, 1, TRUE)

\* the flags taken from the end of the list: names and outcomes misaligned
statusReplyMisaligned(serviceList, statusFlags) ==
    LET n == Len(statusFlags)
        services == [i \in DOMAIN serviceList.items |->
                        [name |-> serviceList.items[i].name,
                         active |-> statusFlags[n + 1 - i]]]
    IN  [status |-> allOk(statusFlags), services |-> Array(services)]

statusReply(serviceList, statusFlags) ==
    LET overallFlag == allOk(statusFlags)
        services == [i \in DOMAIN serviceList.items \cup DOMAIN statusFlags |->
                        [name |-> serviceList.items[i].name, active |-> statusFlags[i]]]
    IN  [status |-> overallFlag, services |-> Array(services)]

\* an absent list treated as an empty one
executeApisAbsentAsEmpty(apis, probes) ==
    LET flags == PromiseAll(probes)
    IN  IF apis = NoValue THEN Fulfilled(statusReply(EmptyArray, << >>))
        ELSE IF flags.st = "fulfilled"
        THEN Fulfilled(statusReply(apis, flags.value))
        ELSE flags

\* probes: the promises of ensureHttp200, one per entry of apis
executeApis(apis, probes) ==
    IF apis # NoValue
    THEN LET flags == PromiseAll(probes)
         IN  IF flags.st = "fulfilled"
             THEN Fulfilled(statusReply(apis, flags.value))
             ELSE flags
    ELSE Fulfilled(EmptyArray)

\* checks: what the calls of fn returned, as promises, one per entry
executeFunctions(functions, checks) ==
    IF functions # NoValue
    THEN LET flags == PromiseAll(checks)
         IN  IF flags.st = "fulfilled"
             THEN Fulfilled(statusReply(functions, flags.value))
             ELSE flags
    ELSE Fulfilled(EmptyArray)

\* a failing category answers 500 (the rule the source leaves commented out)
responseStatusFailing(result) ==
    IF \E k \in {"apis", "functions"} :
           "status" \notin DOMAIN result[k] \/ ~result[k].status
    THEN 500 ELSE 200

responseStatus(result) == 200

\* orchestrate joining apisPromise and functionsPromise only: the envelope
\* is composed without waiting for the host metrics
orchestrateNoWait(set, s) ==
    LET serverPromise == Settle(s.serverPromise, healthCheckServer(s.diskspace))
        apisPromise == Settle(s.apisPromise, executeApis(set.apis, s.http200))
        functionsPromise ==
            Settle(s.functionsPromise, executeFunctions(set.functions, s.checks))
        r1 == IF serverPromise.st = "fulfilled"
              THEN Assign(EmptyObject, "server", serverPromise.value) ELSE EmptyObject
        r2 == IF apisPromise.st = "fulfilled"
              THEN Assign(r1, "apis", apisPromise.value) ELSE r1
        result == IF functionsPromise.st = "fulfilled"
                  THEN Assign(r2, "functions", functionsPromise.value) ELSE r2
        join == PromiseAll(<<apisPromise, functionsPromise>>)
    IN  [s EXCEPT !.serverPromise = serverPromise,
                  !.apisPromise = apisPromise,
                  !.functionsPromise = functionsPromise,
                  !.result = result,
                  !.join = Settle(@,
                              IF join.st = "fulfilled"
                              THEN Fulfilled([status |-> 200, data |-> result])
                              ELSE join)]

\* the promises of orchestrate after a callback, from the probes' states in s.
\* serverPromise, apisPromise and functionsPromise keep the value their .then
\* callback assigns to result (in the source they fulfil with undefined).
orchestrate(set, s) ==
    LET serverPromise == Settle(s.serverPromise, healthCheckServer(s.diskspace))
        apisPromise == Settle(s.apisPromise, executeApis(set.apis, s.http200))
        functionsPromise ==
            Settle(s.functionsPromise, executeFunctions(set.functions, s.checks))
        r1 == IF serverPromise.st = "fulfilled"
              THEN Assign(EmptyObject, "server", serverPromise.value) ELSE EmptyObject
        r2 == IF apisPromise.st = "fulfilled"
              THEN Assign(r1, "apis", apisPromise.value) ELSE r1
        result == IF functionsPromise.st = "fulfilled"
                  THEN Assign(r2, "functions", functionsPromise.value) ELSE r2
        join == PromiseAll(<<apisPromise, functionsPromise, serverPromise>>)
    IN  [s EXCEPT !.serverPromise = serverPromise,
                  !.apisPromise = apisPromise,
                  !.functionsPromise = functionsPromise,
                  !.result = result,
                  !.join = Settle(@,
                              IF join.st = "fulfilled"
                              THEN Fulfilled([status |-> responseStatus(result),
                                              data |-> result])
                              ELSE join)]

\* res.send(code, body): sent lists the calls; throws tells whether the call
\* throws (the server fails to write the response)
send(s, code, body, throws) ==
    [s EXCEPT !.sent = Append(@, [code |-> code, body |-> body, threw |-> throws])]

\* an error thrown out of the last callback of the promise chain, or out of
\* the handler: nothing catches it
escape(s, e) == [s EXCEPT !.unhandled = Append(@, e)]

\* .catch(function(err) { ... }): reading err.message of undefined throws
\* inside the callback, and so may res.send, before Raven is reached
onRejected(raven, s, err, throws) ==
    IF err = NoValue
    THEN escape(s, TypeError("Cannot read property 'message' of undefined"))
    ELSE LET t == send(s, 200, [status |-> 200, data |-> [message |-> err.message]],
                       throws)
         IN  IF throws THEN escape(t, Error("send failed"))
             ELSE IF raven THEN [t EXCEPT !.captured = Append(@, err)] ELSE t

\* .then(function(info) { ... }): what res.send throws here rejects the
\* promise of .then, and the .catch callback that follows is called with it
onFulfilled(raven, s, info, throws) ==
    LET t == send(s, info.status, info, throws)
    IN  IF throws THEN onRejected(raven, t, Error("send failed"), FALSE) ELSE t

\* catch(e) { ... }
onThrow(s, e, throws) ==
    LET t == send(s, 200, [status |-> 200, data |-> [message |-> e.message]], throws)
    IN  IF throws THEN escape(t, Error("send failed")) ELSE t

\* the promise callbacks of an invocation that the last callback made ready;
\* throws: the first call of res.send they make throws
Drain(set, raven, s, throws) ==
    LET t == orchestrate(set, s)
    IN  IF s.join.st = "pending" /\ t.join.st = "fulfilled"
        THEN onFulfilled(raven, t, t.join.value, throws)
        ELSE IF s.join.st = "pending" /\ t.join.st = "rejected"
        THEN onRejected(raven, t, t.join.reason, throws)
        ELSE t

\* the calls Promise.map makes of the check functions, in order: calls[i] is
\* what the i-th call does, and no call follows one that threw
Called(calls, i) == \A j \in DOMAIN calls : j < i => calls[j].st # "rejected"

Uncalled == [st |-> "uncalled"]

\* the i-th of the probes ps settles after a later one of the list has
SettlesLate(ps, i) == \E j \in DOMAIN ps : j > i /\ ps[j].st \in {"fulfilled", "rejected"}

\* an invocation before the handler is called.  requestsReordered and
\* checksReordered record that the probes of the category did not settle in
\* the order of its list.
Fresh ==
    [entry |-> "none", result |-> EmptyObject,
     diskspace |-> Uncalled, http200 |-> << >>, responses |-> << >>, checks |-> << >>,
     serverPromise |-> Pending, apisPromise |-> Pending, functionsPromise |-> Pending,
     join |-> Pending, sent |-> << >>, captured |-> << >>, unhandled |-> << >>,
     requestsReordered |-> FALSE, checksReordered |-> FALSE]

\* the handler getHealthCheck(set) returns, called for invocation s
getHealthCheck(set, raven, s, calls, throws) ==
    IF set = NoValue
    THEN onThrow([s EXCEPT !.entry = "getRouteHandler"],
                 TypeError("Cannot read property 'apis' of undefined"), throws)
    ELSE LET apis == set.apis
         IN  Drain(set, raven,
                   [s EXCEPT !.entry = "getRouteHandler",
                             !.diskspace = Pending,
                             !.responses = IF apis = NoValue THEN << >>
                                           ELSE [i \in DOMAIN apis.items |-> NoValue],
                             !.http200 = IF apis = NoValue THEN << >>
                                         ELSE [i \in DOMAIN apis.items |-> Pending],
                             !.checks = [i \in DOMAIN calls |->
                                            IF Called(calls, i) THEN calls[i] ELSE Uncalled]],
                   throws)

-----------------------------------------------------------------------------
VARIABLES inspectionSet, Raven, inv
vars == <<inspectionSet, Raven, inv>>

Init ==
    /\ inspectionSet \in InspectionSets
    /\ Raven \in BOOLEAN
    /\ inv = [r \in Requests |-> Fresh]

\* a request arrives at a route whose handler is getRouteHandler(inspectionSet)
Handler(r) ==
    /\ inv[r].entry = "none"
    /\ LET functions == IF inspectionSet = NoValue THEN NoValue
                        ELSE inspectionSet.functions
       IN  \E calls \in (IF functions = NoValue THEN {<< >>}
                         ELSE [DOMAIN functions.items -> FnCallOutcomes]),
              throws \in BOOLEAN :
               inv' = [inv EXCEPT ![r] =
                          getHealthCheck(inspectionSet, Raven, @, calls, throws)]
    /\ UNCHANGED <<inspectionSet, Raven>>

\* a request arrives at the route setupEndpoints registered: the function
\* registered is getHealthCheck itself, which is called with (req, res, next),
\* builds a handler and returns it
RegisteredRoute(r) ==
    /\ inv[r].entry = "none"
    /\ inv' = [inv EXCEPT ![r].entry = "setupEndpoints"]
    /\ UNCHANGED <<inspectionSet, Raven>>

\* request(url, ...) with the outcome of the i-th endpoint held in a place
\* that the invocations share: it reaches every invocation still waiting
RequestDoneShared(r, i) ==
    /\ i \in DOMAIN inv[r].responses
    /\ inv[r].responses[i] = NoValue
    /\ \E outcome \in RequestOutcomes, throws \in BOOLEAN :
           inv' = [q \in Requests |->
                      IF /\ i \in DOMAIN inv[q].responses
                         /\ inv[q].responses[i] = NoValue
                      THEN Drain(inspectionSet, Raven,
                                 [inv[q] EXCEPT !.responses[i] = outcome,
                                                !.http200[i] = ensureHttp200(outcome)],
                                 throws)
                      ELSE inv[q]]
    /\ UNCHANGED <<inspectionSet, Raven>>

\* the callback of request(url, ...) for the i-th endpoint
RequestDone(r, i) ==
    /\ i \in DOMAIN inv[r].responses
    /\ inv[r].responses[i] = NoValue
    /\ \E outcome \in RequestOutcomes, throws \in BOOLEAN :
           inv' = [inv EXCEPT ![r] =
                      Drain(inspectionSet, Raven,
                            [@ EXCEPT !.responses[i] = outcome,
                                      !.http200[i] = ensureHttp200(outcome),
                                      !.requestsReordered =
                                          @ \/ SettlesLate(inv[r].http200, i)],
                            throws)]
    /\ UNCHANGED <<inspectionSet, Raven>>

\* the promise the i-th check function returned settles
CheckSettled(r, i) ==
    /\ i \in DOMAIN inv[r].checks
    /\ inv[r].checks[i].st = "pending"
    /\ \E outcome \in FnSettleOutcomes, throws \in BOOLEAN :
           inv' = [inv EXCEPT ![r] =
                      Drain(inspectionSet, Raven,
                            [@ EXCEPT !.checks[i] = outcome,
                                      !.checksReordered =
                                          @ \/ SettlesLate(inv[r].checks, i)],
                            throws)]
    /\ UNCHANGED <<inspectionSet, Raven>>

\* the callback of diskspace.check('/')
DiskDone(r) ==
    /\ inv[r].diskspace.st = "pending"
    /\ \E outcome \in DiskOutcomes, throws \in BOOLEAN :
           inv' = [inv EXCEPT ![r] =
                      Drain(inspectionSet, Raven,
                            [@ EXCEPT !.diskspace =
                                 IF "error" \in DOMAIN outcome
                                 THEN Rejected(outcome.error)
                                 ELSE Fulfilled(outcome.data)],
                            throws)]
    /\ UNCHANGED <<inspectionSet, Raven>>

Invocation(r) ==
    \/ Handler(r)
    \/ RegisteredRoute(r)
    \/ DiskDone(r)
    \/ \E i \in 1..MaxLen : RequestDone(r, i)
    \/ \E i \in 1..MaxLen : CheckSettled(r, i)

\* one invocation, followed from the call of the handler to its last
\* callback; the other invocation of Requests stays uncalled
Next == Invocation(1)

Spec == Init /\ [][Next]_vars

\* two invocations of one handler with their callbacks interleaved in any
\* order, for the InspectionSets of at most MaxProbes probes
MaxProbes == 1

ProbeCount(set) ==
    IF set = NoValue THEN 0
    ELSE (IF set.apis = NoValue THEN 0 ELSE Len(set.apis.items))
         + (IF set.functions = NoValue THEN 0 ELSE Len(set.functions.items))

ConcurrentInit ==
    /\ Init
    /\ ProbeCount(inspectionSet) <= MaxProbes

NextConcurrent == \E r \in Requests : Invocation(r)

SpecConcurrent == ConcurrentInit /\ [][NextConcurrent]_vars

-----------------------------------------------------------------------------
(* Vocabulary of the properties *)

\* the handler of getRouteHandler(inspectionSet) was called for r
Handled(r) == inv[r].entry = "getRouteHandler"

\* every request, check and disk query that r started has settled
Quiescent(r) ==
    /\ inv[r].entry # "none"
    /\ inv[r].diskspace.st # "pending"
    /\ \A i \in DOMAIN inv[r].responses : inv[r].responses[i] # NoValue
    /\ \A i \in DOMAIN inv[r].checks : inv[r].checks[i].st # "pending"

\* a response body whose data is a composite report / the degraded payload
IsComposite(body) == "server" \in DOMAIN body.data
IsDegraded(body) == DOMAIN body.data = {"message"}

\* the request to the i-th endpoint of r ended with a transport error
RequestFailed(r, i) ==
    /\ inv[r].responses[i] # NoValue
    /\ "error" \in DOMAIN inv[r].responses[i]

\* the request to the i-th endpoint of r ended with a response of status 200
RequestGot200(r, i) ==
    /\ inv[r].responses[i] # NoValue
    /\ "statusCode" \in DOMAIN inv[r].responses[i]
    /\ inv[r].responses[i].statusCode = 200

-----------------------------------------------------------------------------
(* C1: every response a handler of getRouteHandler sends has HTTP status   *)
(* 200 and an envelope whose status field is 200, whatever the outcomes of *)
(* the probes: all pass, some fail, orchestrate throws, the join rejects.  *)
C1_Always200 ==
    \A r \in Requests : \A k \in DOMAIN inv[r].sent :
        /\ inv[r].sent[k].code = 200
        /\ inv[r].sent[k].body.status = 200

\* a composite report with a failing endpoint has been sent
C1_Witness ==
    \E r \in Requests : \E k \in DOMAIN inv[r].sent :
        /\ Handled(r)
        /\ IsComposite(inv[r].sent[k].body)
        /\ inspectionSet.apis # NoValue
        /\ ~inv[r].sent[k].body.data.apis.status

(* C2: the outcome of an endpoint probe is true iff the request ended with *)
(* status 200 and false otherwise, a transport error included; the error   *)
(* rejects neither executeApis nor the orchestrator's join.                *)
C2_ProbeOutcome ==
    \A r \in Requests :
        /\ \A i \in DOMAIN inv[r].responses :
              inv[r].responses[i] # NoValue
                  => inv[r].http200[i] = Fulfilled(RequestGot200(r, i))
        /\ (\E i \in DOMAIN inv[r].responses : RequestFailed(r, i))
              => /\ inv[r].apisPromise.st # "rejected"
                 /\ (inv[r].join.st = "rejected"
                        => \E i \in DOMAIN inv[r].checks :
                               /\ inv[r].checks[i].st = "rejected"
                               /\ inv[r].checks[i].reason = inv[r].join.reason)

(* C3: when the request to an endpoint times out or fails in transport and *)
(* no function check raises, the response has status 200 and its body is a *)
(* composite report whose apis.status is false and whose services entry    *)
(* for that endpoint has active = false.                                   *)
C3_TimeoutReported ==
    \A r \in Requests :
        (/\ Handled(r)
         /\ Quiescent(r)
         /\ \E i \in DOMAIN inv[r].responses : RequestFailed(r, i)
         /\ \A i \in DOMAIN inv[r].checks : inv[r].checks[i].st = "fulfilled")
        => /\ Len(inv[r].sent) = 1
           /\ inv[r].sent[1].code = 200
           /\ IsComposite(inv[r].sent[1].body)
           /\ ~inv[r].sent[1].body.data.apis.status
           /\ \A i \in DOMAIN inv[r].responses :
                  RequestFailed(r, i)
                      => ~inv[r].sent[1].body.data.apis.services.items[i].active

(* C4: every invocation of the route handler sends a response once every   *)
(* endpoint request, function check and disk query has settled, and no     *)
(* error escapes the handler.                                              *)
C4_AlwaysAnswered ==
    \A r \in Requests :
        (Handled(r) /\ Quiescent(r))
            => /\ Len(inv[r].sent) >= 1
               /\ inv[r].unhandled = << >>

(* C5: the route that setupEndpoints registers answers every request: the  *)
(* function registered runs the orchestration and sends a response with    *)
(* status 200.                                                             *)
C5_RegisteredRouteAnswers ==
    \A r \in Requests :
        inv[r].entry = "setupEndpoints"
            => /\ inv[r].diskspace.st # "uncalled"
               /\ Quiescent(r) => /\ Len(inv[r].sent) >= 1
                                  /\ inv[r].sent[1].code = 200

\* the report of a category that was probed: specs is the category's list,
\* ps the promises of its probes
ReportOf(specs, ps, report) ==
    /\ DOMAIN report = {"status", "services"}
    /\ Len(report.services.items) = Len(specs.items)
    /\ \A i \in DOMAIN specs.items :
           report.services.items[i] =
               [name |-> specs.items[i].name, active |-> ps[i].value]
    /\ report.status = (\A i \in DOMAIN specs.items : ps[i].value)

(* C6: statusReply returns, for N specs and N boolean outcomes, a report   *)
(* with N services, the i-th being the i-th spec's name with the i-th      *)
(* outcome, and with status the AND of the outcomes (true when N = 0).     *)
C6_StatusReply ==
    \A r \in Requests :
        /\ ("apis" \in DOMAIN inv[r].result /\ inspectionSet.apis # NoValue)
              => ReportOf(inspectionSet.apis, inv[r].http200, inv[r].result.apis)
        /\ ("functions" \in DOMAIN inv[r].result /\ inspectionSet.functions # NoValue)
              => ReportOf(inspectionSet.functions, inv[r].checks,
                          inv[r].result.functions)

\* a report of two services, the first failing and the second passing
C6_Witness ==
    \E r \in Requests :
        /\ "functions" \in DOMAIN inv[r].result
        /\ inspectionSet.functions # NoValue
        /\ Len(inv[r].result.functions.services.items) = 2
        /\ ~inv[r].result.functions.services.items[1].active
        /\ inv[r].result.functions.services.items[2].active
        /\ ~inv[r].result.functions.status

HostMetricsFields ==
    {"process_memory_used_percent", "uptime_minutes",
     "cpu_one_minute_average_percent", "cpu_five_minute_average_percent",
     "hostname", "os_free_memory_mb", "disk_root_use_percent"}

\* the value of a category in a composite report: empty when the category
\* is absent, its report otherwise
CategoryOf(specs, ps, value) ==
    IF specs = NoValue
    THEN /\ value = EmptyArray
         /\ "status" \notin DOMAIN value
         /\ "services" \notin DOMAIN value
    ELSE /\ ReportOf(specs, ps, value)
         /\ specs = EmptyArray => value = [status |-> TRUE, services |-> EmptyArray]

(* C7: a composite report has the key of an absent category, with an empty *)
(* value that has neither status nor services; the other category's report *)
(* and the host metrics are as they are without the absence; a category    *)
(* present as an empty list has the report {status: true, services: []}.   *)
C7_AbsentCategory ==
    \A r \in Requests : \A k \in DOMAIN inv[r].sent :
        IsComposite(inv[r].sent[k].body)
            => LET data == inv[r].sent[k].body.data
               IN  /\ DOMAIN data = {"server", "apis", "functions"}
                   /\ CategoryOf(inspectionSet.apis, inv[r].http200, data.apis)
                   /\ CategoryOf(inspectionSet.functions, inv[r].checks, data.functions)
                   /\ DOMAIN data.server = HostMetricsFields

\* a composite report sent with apis absent and a function check reported
C7_Witness ==
    \E r \in Requests :
        /\ Handled(r)
        /\ Len(inv[r].sent) = 1
        /\ IsComposite(inv[r].sent[1].body)
        /\ inspectionSet.apis = NoValue
        /\ inspectionSet.functions # NoValue
        /\ Len(inv[r].sent[1].body.data.functions.services.items) >= 1

\* the i-th check function of r raised or rejected
CheckRaised(r, i) == inv[r].checks[i].st = "rejected"

(* C8: when a function check raises or rejects, the failure reaches the    *)
(* join (it is not turned into false), the join rejects, and the handler   *)
(* sends HTTP 200 with the payload {status: 200, data: {message: m}}, m    *)
(* the message of the error, in place of a composite report.               *)
C8_FunctionErrorDegrades ==
    \A r \in Requests :
        (/\ Handled(r)
         /\ Quiescent(r)
         /\ \E i \in DOMAIN inv[r].checks : CheckRaised(r, i))
        => /\ inv[r].functionsPromise.st = "rejected"
           /\ inv[r].join.st = "rejected"
           /\ Len(inv[r].sent) = 1
           /\ inv[r].sent[1].code = 200
           /\ \E i \in DOMAIN inv[r].checks :
                  /\ CheckRaised(r, i)
                  /\ "message" \in DOMAIN inv[r].checks[i].reason
                  /\ inv[r].sent[1].body =
                         [status |-> 200,
                          data |-> [message |-> inv[r].checks[i].reason.message]]

(* C9: the host metrics collector never fails: when the disk query fails   *)
(* it still fulfils, with disk_root_use_percent = -1 and every other field *)
(* populated, so the server branch never rejects the join.                 *)
C9_CollectorNeverFails ==
    \A r \in Requests :
        /\ inv[r].serverPromise.st # "rejected"
        /\ inv[r].diskspace.st = "rejected"
              => /\ inv[r].serverPromise.st = "fulfilled"
                 /\ DOMAIN inv[r].serverPromise.value = HostMetricsFields
                 /\ inv[r].serverPromise.value.disk_root_use_percent = DiskUnavailable
                 /\ "server" \in DOMAIN inv[r].result
                 /\ inv[r].result.server = inv[r].serverPromise.value
        /\ inv[r].join.st = "rejected"
              => \/ \E i \in DOMAIN inv[r].http200 :
                        /\ inv[r].http200[i].st = "rejected"
                        /\ inv[r].http200[i].reason = inv[r].join.reason
                 \/ \E i \in DOMAIN inv[r].checks :
                        /\ inv[r].checks[i].st = "rejected"
                        /\ inv[r].checks[i].reason = inv[r].join.reason

\* the disk query failed and a composite report with the sentinel was sent
C9_Witness ==
    \E r \in Requests :
        /\ inv[r].diskspace.st = "rejected"
        /\ Len(inv[r].sent) = 1
        /\ IsComposite(inv[r].sent[1].body)
        /\ inv[r].sent[1].body.data.server.disk_root_use_percent = DiskUnavailable

\* the handler of r caught an error: a throw of orchestrate, or a rejected join
Caught(r) ==
    /\ Handled(r)
    /\ inspectionSet = NoValue \/ inv[r].join.st = "rejected"

(* C10: whenever the handler catches an error, a rejected orchestration or *)
(* a synchronous exception, and an error sink is configured, the exception *)
(* is forwarded to the sink, and the response is the degraded payload it   *)
(* sends without a sink.                                                   *)
C10_ForwardedToSink ==
    \A r \in Requests :
        (Caught(r) /\ Raven)
            => /\ Len(inv[r].captured) = 1
               /\ Len(inv[r].sent) = 1
               /\ IsDegraded(inv[r].sent[1].body)
               /\ inv[r].sent[1].body.data.message = inv[r].captured[1].message

(* C11: a failure of one probe does not fail the others: when an endpoint  *)
(* request errors or a function check raises, the response still reports   *)
(* the sibling probes, the other category and the host metrics, each by    *)
(* its own outcome.                                                        *)
C11_FailureIsolated ==
    \A r \in Requests :
        (/\ Handled(r)
         /\ Quiescent(r)
         /\ inspectionSet # NoValue
         /\ \/ \E i \in DOMAIN inv[r].responses : RequestFailed(r, i)
            \/ \E i \in DOMAIN inv[r].checks : CheckRaised(r, i))
        => /\ Len(inv[r].sent) >= 1
           /\ IsComposite(inv[r].sent[1].body)
           /\ DOMAIN inv[r].sent[1].body.data.server = HostMetricsFields
           /\ \A i \in DOMAIN inv[r].responses :
                  ~RequestFailed(r, i)
                      => inv[r].sent[1].body.data.apis.services.items[i] =
                             [name |-> inspectionSet.apis.items[i].name,
                              active |-> RequestGot200(r, i)]
           /\ \A i \in DOMAIN inv[r].checks :
                  inv[r].checks[i].st = "fulfilled"
                      => inv[r].sent[1].body.data.functions.services.items[i] =
                             [name |-> inspectionSet.functions.items[i].name,
                              active |-> inv[r].checks[i].value]

\* the services of a report carry, position by position, the names of specs
\* and the outcomes of the probes ps
Positional(specs, ps, report) ==
    /\ DOMAIN report.services.items = DOMAIN specs.items
    /\ \A i \in DOMAIN specs.items :
           /\ report.services.items[i].name = specs.items[i].name
           /\ report.services.items[i].active = ps[i].value

(* C12: within a category the i-th result carries the name of the i-th     *)
(* spec and the outcome of that spec's own probe, in whatever order the    *)
(* probes settle; the services list has the length and the name order of   *)
(* the input list.                                                         *)
C12_PositionalResults ==
    \A r \in Requests :
        /\ (inv[r].apisPromise.st = "fulfilled" /\ inspectionSet.apis # NoValue)
              => Positional(inspectionSet.apis, inv[r].http200,
                            inv[r].apisPromise.value)
        /\ (inv[r].functionsPromise.st = "fulfilled"
               /\ inspectionSet.functions # NoValue)
              => Positional(inspectionSet.functions, inv[r].checks,
                            inv[r].functionsPromise.value)

\* both categories reported, each with probes that settled against the order
\* of the list and with differing outcomes
C12_Witness ==
    \E r \in Requests :
        /\ inv[r].requestsReordered
        /\ inv[r].checksReordered
        /\ Len(inv[r].sent) = 1
        /\ IsComposite(inv[r].sent[1].body)
        /\ LET data == inv[r].sent[1].body.data
           IN  /\ data.apis.services.items[1].active
               /\ ~data.apis.services.items[2].active
               /\ ~data.functions.services.items[1].active
               /\ data.functions.services.items[2].active

\* the three branches of r
Branches(r) == <<inv[r].apisPromise, inv[r].functionsPromise, inv[r].serverPromise>>

OwnOutcomes(r) ==
    /\ ("apis" \in DOMAIN inv[r].result /\ inspectionSet.apis # NoValue)
          => ReportOf(inspectionSet.apis, inv[r].http200, inv[r].result.apis)
    /\ ("functions" \in DOMAIN inv[r].result /\ inspectionSet.functions # NoValue)
          => ReportOf(inspectionSet.functions, inv[r].checks, inv[r].result.functions)
    /\ \A k \in DOMAIN inv[r].sent :
           IsComposite(inv[r].sent[k].body)
               => inv[r].sent[k].body.data = inv[r].result

\* a callback changes the state of one invocation at most
OneInvocationStep == \E r \in Requests : \A q \in Requests \ {r} : inv'[q] = inv[q]

(* C14: two invocations of one handler, their callbacks interleaved in any *)
(* order, share no state: each report and response is made of the outcomes *)
(* of the invocation's own probes, a callback changes the state of one     *)
(* invocation only, and the InspectionSet is never modified.               *)
C14_NoSharedState ==
    /\ [](\A r \in Requests : OwnOutcomes(r))
    /\ [][OneInvocationStep /\ inspectionSet' = inspectionSet]_vars

\* both invocations in flight, the same endpoint answering 200 to the first
\* and failing for the second, each with the report of its own request
C14_Witness ==
    /\ \A r \in Requests : Handled(r) /\ inv[r].diskspace.st = "pending"
    /\ inspectionSet # NoValue
    /\ inspectionSet.apis # NoValue
    /\ Len(inspectionSet.apis.items) = 1
    /\ "apis" \in DOMAIN inv[1].result
    /\ "apis" \in DOMAIN inv[2].result
    /\ inv[1].result.apis.services.items[1].active
    /\ ~inv[2].result.apis.services.items[1].active

(* C15: in an invocation every endpoint configured receives one request    *)
(* and every check function is called, whatever the other checks do: none  *)
(* is skipped when another check throws or rejects.                        *)
C15_EveryProbeStarted ==
    \A r \in Requests :
        (Handled(r) /\ inspectionSet # NoValue)
            => /\ inspectionSet.apis # NoValue
                     => DOMAIN inv[r].responses = DOMAIN inspectionSet.apis.items
               /\ inspectionSet.functions # NoValue
                     => /\ DOMAIN inv[r].checks = DOMAIN inspectionSet.functions.items
                        /\ \A i \in DOMAIN inv[r].checks :
                               inv[r].checks[i].st # "uncalled"

(* C16: an invocation calls res.send at most once: the success response,   *)
(* the response to a rejection and the response to a synchronous exception *)
(* exclude each other, also when branches settle after the aggregate has   *)
(* rejected and when res.send throws in the success path.                  *)
C16_SendAtMostOnce == \A r \in Requests : Len(inv[r].sent) <= 1

====
